---- MODULE Spec2Model ----
(***************************************************************************)
(* Casa Limpia backend (Piso/backend/server.py): the weekly schedule       *)
(* generator and the five request handlers over the week_schedules         *)
(* collection.                                                             *)
(*                                                                         *)
(* Representation.                                                         *)
(*   - A date is its proleptic Gregorian ordinal (date.toordinal()).       *)
(*   - A Python str that holds a date or a timestamp is the sequence of    *)
(*     its character codes, so isoformat() is a real conversion and the    *)
(*     store compares and sorts week_start as text, as MongoDB does.       *)
(*   - Enum members are their string values.                               *)
(*   - Optional[str] is a sequence of length 0 (None) or 1 (the string).   *)
(*   - A time of day is <<hour, minute, second, microsecond>>; the clock   *)
(*     is the date `today` and, where complete_task reads it, a time of    *)
(*     that day.                                                           *)
(*   - A handler is one action for each stretch of code it runs without    *)
(*     yielding: what it does before its first await, and then, for each   *)
(*     await, the storage call taking effect together with the code up to  *)
(*     the next await.  What a stretch reads from the clock or computes    *)
(*     for a later one is kept in the request's local variables.           *)
(*   - uuid4() is a fresh value: <<generator run, week index, position>>.  *)
(*   - The collection is the sequence of its documents in insertion        *)
(*     (natural) order.                                                    *)
(***************************************************************************)
EXTENDS Integers, Sequences, FiniteSets, TLC

VARIABLES
    today,        \* datetime.now(timezone.utc).date(), as an ordinal
    store,        \* db.week_schedules
    pc,           \* per worker: where its request is suspended
    monday,       \* per worker: get_current_week's local `monday`
    schedules,    \* per worker: create_schedules's local `schedules`
    task_update,  \* per worker: complete_task's argument `task_update`
    completed_at, \* per worker: complete_task's local `completed_at`
    before,       \* per worker: the collection as it was when its request began
    resp,         \* the response of the request that finished last
    runs,         \* number of generator runs so far (source of fresh uuids)
    requests      \* number of requests that have arrived so far

vars == <<today, store, pc, monday, schedules, task_update, completed_at, before, resp, runs, requests>>

----------------------------------------------------------------------------
(* Bounds of the model *)

\* number of days after FirstDay the clock may reach
Days == 1
\* number of days after GenFirstDay the generator is run on
GenDays == 52
\* number of generator runs in one behaviour
MaxRuns == 2
\* number of Tasks that may be marked completed at once
MaxCompleted == 1
\* number of requests in one behaviour
MaxRequests == 4

----------------------------------------------------------------------------
(* Enums, server.py 29-43 *)

PersonType == {"joan", "mery", "paco", "belen"}

AreaType == {"cocina", "salon_pasillo", "bano_joan_mery", "bano_paco_belen"}

TaskType == {"limpieza_principal", "limpieza_bano"}

----------------------------------------------------------------------------
(* datetime.date arithmetic as CPython computes it *)

is_leap(y) == y % 4 = 0 /\ (y % 100 # 0 \/ y % 400 = 0)

days_before_year(y) ==
    (y - 1) * 365 + ((y - 1) \div 4) - ((y - 1) \div 100) + ((y - 1) \div 400)

days_in_month(y, m) ==
    IF m = 2 THEN (IF is_leap(y) THEN 29 ELSE 28)
    ELSE IF m \in {4, 6, 9, 11} THEN 30 ELSE 31

RECURSIVE days_before_month(_, _)
days_before_month(y, m) ==
    IF m = 1 THEN 0 ELSE days_before_month(y, m - 1) + days_in_month(y, m - 1)

\* date(y, m, d).toordinal()
ymd2ord(y, m, d) == days_before_year(y) + days_before_month(y, m) + d

\* date.fromordinal(n) as <<year, month, day>>
ord2ymd(n) ==
    LET n0   == n - 1
        n400 == n0 \div 146097
        r400 == n0 % 146097
        n100 == r400 \div 36524
        r100 == r400 % 36524
        n4   == r100 \div 1461
        r4   == r100 % 1461
        n1   == r4 \div 365
        r1   == r4 % 365
        year == n400 * 400 + 1 + n100 * 100 + n4 * 4 + n1
    IN  IF n1 = 4 \/ n100 = 4
        THEN <<year - 1, 12, 31>>
        ELSE LET guess == (r1 + 50) \div 32
                 month == IF days_before_month(year, guess) > r1
                          THEN guess - 1 ELSE guess
             IN  <<year, month, r1 - days_before_month(year, month) + 1>>

\* date.weekday(): Monday is 0
weekday(d) == (d + 6) % 7

isoweek1monday(y) ==
    LET firstday     == ymd2ord(y, 1, 1)
        firstweekday == weekday(firstday)
        week1monday  == firstday - firstweekday
    IN  IF firstweekday > 3 THEN week1monday + 7 ELSE week1monday

\* date.isocalendar()[1]
isoweek(d) ==
    LET year == ord2ymd(d)[1]
        week == (d - isoweek1monday(year)) \div 7
    IN  IF week < 0
        THEN ((d - isoweek1monday(year - 1)) \div 7) + 1
        ELSE IF week >= 52 /\ d >= isoweek1monday(year + 1)
             THEN 1
             ELSE week + 1

\* character codes of the two decimal digits of n
digits2(n) == <<48 + ((n \div 10) % 10), 48 + (n % 10)>>

\* date.isoformat(): "YYYY-MM-DD"
isoformat(d) ==
    LET ymd == ord2ymd(d)
    IN  digits2(ymd[1] \div 100) \o digits2(ymd[1]) \o <<45>>
            \o digits2(ymd[2]) \o <<45>> \o digits2(ymd[3])

\* character codes of the six decimal digits of n
digits6(n) == digits2(n \div 10000) \o digits2(n \div 100) \o digits2(n)

\* time.isoformat() of <<hour, minute, second, microsecond>>: "HH:MM:SS",
\* followed by ".ffffff" when the microsecond is not 0
time_isoformat(t) ==
    digits2(t[1]) \o <<58>> \o digits2(t[2]) \o <<58>> \o digits2(t[3])
        \o (IF t[4] # 0 THEN <<46>> \o digits6(t[4]) ELSE <<>>)

\* datetime.now(timezone.utc).isoformat() of now = <<date, time>>:
\* "YYYY-MM-DDTHH:MM:SS[.ffffff]+00:00"
now_isoformat(now) ==
    isoformat(now[1]) \o <<84>> \o time_isoformat(now[2])
        \o <<43, 48, 48, 58, 48, 48>>

\* str < str, by code point
RECURSIVE str_less(_, _)
str_less(a, b) ==
    IF b = <<>> THEN FALSE
    ELSE IF a = <<>> THEN TRUE
    ELSE IF Head(a) # Head(b) THEN Head(a) < Head(b)
    ELSE str_less(Tail(a), Tail(b))

None == <<>>

----------------------------------------------------------------------------
(* Helper functions, server.py 79-97 *)

get_monday_of_week(date) ==
    LET days_since_monday == weekday(date)
    IN  date - days_since_monday

get_sunday_of_week(date) ==
    LET mon == get_monday_of_week(date)
    IN  mon + 6

get_next_monday_no_special_case(now) ==
    LET days_until_monday == (7 - weekday(now)) % 7
    IN  now + days_until_monday

\* `now` is the date the function reads from the clock
get_next_monday(now) ==
    LET days_until_monday == (7 - weekday(now)) % 7
    IN  IF days_until_monday = 0
        THEN now + 7
        ELSE now + days_until_monday

----------------------------------------------------------------------------
(* The generator, server.py 99-198 *)

end_date == ymd2ord(2026, 7, 1)

\* PersonTask(...) as the generator constructs it: the id is fresh, the
\* completion fields take their defaults
PersonTask(id, week_start, person, area, task_type) ==
    [ id                  |-> id,
      week_start          |-> week_start,
      person              |-> person,
      area                |-> area,
      task_type           |-> task_type,
      limpieza_completada |-> FALSE,
      completed_at        |-> None ]

\* a tasks list with a bathroom task for every person, whatever the flags
week_tasks_all_banos(mon, joan_area, mery_area, paco_area, belen_area, joan_bano, mery_bano, paco_bano, belen_bano, run, i) ==
    LET ws  == isoformat(mon)
        all == << <<"joan", joan_area, "limpieza_principal">>,
                  <<"mery", mery_area, "limpieza_principal">>,
                  <<"paco", paco_area, "limpieza_principal">>,
                  <<"belen", belen_area, "limpieza_principal">>,
                  <<"joan", "bano_joan_mery", "limpieza_bano">>,
                  <<"mery", "bano_joan_mery", "limpieza_bano">>,
                  <<"paco", "bano_paco_belen", "limpieza_bano">>,
                  <<"belen", "bano_paco_belen", "limpieza_bano">> >>
    IN  [k \in 1..Len(all) |->
            PersonTask(<<run, i, k>>, ws, all[k][1], all[k][2], all[k][3])]

\* the tasks list built by one iteration of the loop
week_tasks(mon, joan_area, mery_area, paco_area, belen_area, joan_bano, mery_bano, paco_bano, belen_bano, run, i) ==
    LET ws    == isoformat(mon)
        main  == << <<"joan", joan_area>>, <<"mery", mery_area>>,
                    <<"paco", paco_area>>, <<"belen", belen_area>> >>
        mains == [k \in 1..4 |->
                    <<main[k][1], main[k][2], "limpieza_principal">>]
        banos == (IF joan_bano
                  THEN << <<"joan", "bano_joan_mery", "limpieza_bano">> >>
                  ELSE <<>>)
              \o (IF mery_bano
                  THEN << <<"mery", "bano_joan_mery", "limpieza_bano">> >>
                  ELSE <<>>)
              \o (IF paco_bano
                  THEN << <<"paco", "bano_paco_belen", "limpieza_bano">> >>
                  ELSE <<>>)
              \o (IF belen_bano
                  THEN << <<"belen", "bano_paco_belen", "limpieza_bano">> >>
                  ELSE <<>>)
        all   == mains \o banos
    IN  [k \in 1..Len(all) |->
            PersonTask(<<run, i, k>>, ws, all[k][1], all[k][2], all[k][3])]

\* a WeekSchedule record from the values one iteration has computed
WeekSchedule(mon, week_counter, run, joan_area, paco_area, joan_bano, mery_bano, paco_bano, belen_bano) ==
    [ id          |-> <<run, week_counter, 0>>,
      week_start  |-> isoformat(mon),
      week_end    |-> isoformat(mon + 6),
      week_number |-> isoweek(mon),
      year        |-> ord2ymd(mon)[1],
      joan_area   |-> joan_area,
      mery_area   |-> joan_area,
      paco_area   |-> paco_area,
      belen_area  |-> paco_area,
      joan_bano   |-> joan_bano,
      mery_bano   |-> mery_bano,
      paco_bano   |-> paco_bano,
      belen_bano  |-> belen_bano,
      tasks       |-> week_tasks(mon, joan_area, joan_area, paco_area,
                                 paco_area, joan_bano, mery_bano,
                                 paco_bano, belen_bano, run, week_counter) ]

\* an iteration in which Mery's bathroom flag has Joan's parity
week_schedule_mery_even(current_date, week_counter, run) ==
    LET even == week_counter % 2 = 0
    IN  WeekSchedule(current_date, week_counter, run,
                     IF even THEN "cocina" ELSE "salon_pasillo",
                     IF even THEN "salon_pasillo" ELSE "cocina",
                     even, even, even, ~even)

\* an iteration whose else branch repeats the areas of the then branch
week_schedule_no_swap(current_date, week_counter, run) ==
    LET even == week_counter % 2 = 0
    IN  WeekSchedule(current_date, week_counter, run,
                     "cocina", "salon_pasillo", even, ~even, even, ~even)

\* the WeekSchedule built by one iteration of the loop
week_schedule(current_date, week_counter, run) ==
    LET mon        == current_date
        sunday     == get_sunday_of_week(mon)
        even       == week_counter % 2 = 0
        joan_area  == IF even THEN "cocina" ELSE "salon_pasillo"
        mery_area  == joan_area
        paco_area  == IF even THEN "salon_pasillo" ELSE "cocina"
        belen_area == paco_area
        joan_bano  == (week_counter % 2 = 0)
        mery_bano  == (week_counter % 2 = 1)
        paco_bano  == (week_counter % 2 = 0)
        belen_bano == (week_counter % 2 = 1)
    IN  [ id          |-> <<run, week_counter, 0>>,
          week_start  |-> isoformat(mon),
          week_end    |-> isoformat(sunday),
          week_number |-> isoweek(mon),
          year        |-> ord2ymd(mon)[1],
          joan_area   |-> joan_area,
          mery_area   |-> mery_area,
          paco_area   |-> paco_area,
          belen_area  |-> belen_area,
          joan_bano   |-> joan_bano,
          mery_bano   |-> mery_bano,
          paco_bano   |-> paco_bano,
          belen_bano  |-> belen_bano,
          tasks       |-> week_tasks(mon, joan_area, mery_area, paco_area,
                                     belen_area, joan_bano, mery_bano,
                                     paco_bano, belen_bano, run, week_counter) ]

\* a loop that stops one week early
RECURSIVE schedule_loop_short(_, _, _)
schedule_loop_short(current_date, week_counter, run) ==
    IF current_date + 7 <= end_date
    THEN <<week_schedule(current_date, week_counter, run)>>
            \o schedule_loop_short(current_date + 7, week_counter + 1, run)
    ELSE <<>>

\* the while loop: the schedules appended from current_date on
RECURSIVE schedule_loop(_, _, _)
schedule_loop(current_date, week_counter, run) ==
    IF current_date <= end_date
    THEN <<week_schedule(current_date, week_counter, run)>>
            \o schedule_loop(current_date + 7, week_counter + 1, run)
    ELSE <<>>

\* `now` is the date get_next_monday reads; `run` numbers this call
generate_all_schedules(now, run) ==
    LET start_date == get_next_monday(now)
    IN  schedule_loop(start_date, 0, run)

----------------------------------------------------------------------------
(* The collection db.week_schedules and the storage calls the handlers make *)

\* find_one({"week_start": ws}): position of the first such document, 0 if none
find_one_week(coll, ws) ==
    IF \E i \in 1..Len(coll) : coll[i].week_start = ws
    THEN CHOOSE i \in 1..Len(coll) :
            /\ coll[i].week_start = ws
            /\ \A j \in 1..(i - 1) : coll[j].week_start # ws
    ELSE 0

\* a sort in descending order
find_one_sorted_desc(coll) ==
    {i \in 1..Len(coll) :
        \A j \in 1..Len(coll) : ~str_less(coll[i].week_start, coll[j].week_start)}

\* find_one({}, sort=[("week_start", 1)]): the positions it may return, those
\* of the documents whose week_start is least
find_one_sorted(coll) ==
    {i \in 1..Len(coll) :
        \A j \in 1..Len(coll) : ~str_less(coll[j].week_start, coll[i].week_start)}

\* a list in natural order, not sorted
sort_by_week_start_none(coll) == coll

\* find().sort("week_start", 1).to_list(): insertion sort, ties in natural order
RECURSIVE sort_by_week_start(_)
sort_by_week_start(coll) ==
    IF coll = <<>> THEN <<>>
    ELSE LET rest == sort_by_week_start(Tail(coll))
             doc  == Head(coll)
             k    == Cardinality({i \in 1..Len(rest) :
                                    str_less(rest[i].week_start, doc.week_start)})
         IN  SubSeq(rest, 1, k) \o <<doc>> \o SubSeq(rest, k + 1, Len(rest))

\* $elemMatch on one embedded task
elem_match(task, req) ==
    /\ task.person = req.person
    /\ task.area = req.area
    /\ task.task_type = req.task_type

\* the filter_query of complete_task on one document
filter_query(doc, req) ==
    /\ doc.week_start = req.week_start
    /\ \E k \in 1..Len(doc.tasks) : elem_match(doc.tasks[k], req)

\* update_one: position of the first document the filter matches, 0 if none
matched_doc(coll, req) ==
    IF \E i \in 1..Len(coll) : filter_query(coll[i], req)
    THEN CHOOSE i \in 1..Len(coll) :
            /\ filter_query(coll[i], req)
            /\ \A j \in 1..(i - 1) : ~filter_query(coll[j], req)
    ELSE 0

\* the array position that "tasks.$" stands for: the first matching element
positional(doc, req) ==
    CHOOSE k \in 1..Len(doc.tasks) :
        /\ elem_match(doc.tasks[k], req)
        /\ \A j \in 1..(k - 1) : ~elem_match(doc.tasks[j], req)

\* a timestamp that is set whatever `completed` is; now = <<date, time>>
completed_at_always(completed, now) == <<now_isoformat(now)>>

\* line 263
completed_at_value(completed, now) ==
    IF completed THEN <<now_isoformat(now)>> ELSE None

\* an update that replaces the matched task by a fresh one
update_query_replace(doc, req, stamp) ==
    LET k == positional(doc, req)
    IN  [doc EXCEPT !.tasks[k] =
            [ id                  |-> <<0, 0, 0>>,
              week_start          |-> req.week_start,
              person              |-> req.person,
              area                |-> req.area,
              task_type           |-> req.task_type,
              limpieza_completada |-> req.completed,
              completed_at        |-> stamp ]]

\* the update_query applied to the matched document; `stamp` is the value of
\* the local completed_at
update_query(doc, req, stamp) ==
    LET k == positional(doc, req)
    IN  [doc EXCEPT !.tasks[k].limpieza_completada = req.completed,
                    !.tasks[k].completed_at = stamp]

\* delete_many({}) that leaves the collection as it is
delete_many_nothing(coll) == coll

\* delete_many({})
delete_many(coll) == <<>>

----------------------------------------------------------------------------
(* Requests and responses *)

\* the clock of concurrent requests starts on the Sunday before the last
\* week the generator can yield (2026-06-29)
FirstDay == ymd2ord(2026, 6, 28)

LastDay == FirstDay + Days

\* the times of day, <<hour, minute, second, microsecond>>, at which
\* complete_task reads the clock: midnight, whose microsecond is 0, and a
\* time whose microsecond is not
TimesOfDay == { <<0, 0, 0, 0>>, <<10, 11, 12, 131415>> }

\* the clock of one-at-a-time requests runs a week before the clock of
\* concurrent ones, so that the generator yields two weeks
SeqFirstDay == FirstDay - 7

SeqLastDay == SeqFirstDay + Days

\* the dates the generator alone is run on: seven weeks around end_date
GenFirstDay == ymd2ord(2026, 5, 18)

GenLastDay == GenFirstDay + GenDays

\* the requests that may be suspended at an await at once
Workers == {"w1", "w2"}

\* "invalid-date"
invalid_date == <<105, 110, 118, 97, 108, 105, 100, 45, 100, 97, 116, 101>>

\* the week_start values a complete-task request is tried with: the stored
\* ones
WeekStartInputs == {store[i].week_start : i \in 1..Len(store)}

\* the (person, area, task_type) values it is tried with: members of the
\* enums that match a generated task in some weeks and none in others
KeyInputs ==
    { <<"joan", "cocina", "limpieza_principal">>,
      <<"belen", "bano_paco_belen", "limpieza_bano">> }

\* and one non-member for each enum field
BadKeyInputs ==
    { <<"invalid_person", "cocina", "limpieza_principal">>,
      <<"joan", "invalid_area", "limpieza_principal">>,
      <<"joan", "cocina", "invalid_task_type">> }

TaskCompletionRequest(ws, key, c) ==
    [ week_start |-> ws, person |-> key[1], area |-> key[2],
      task_type |-> key[3], completed |-> c ]

\* the bodies of the complete-task requests: for a stored week, each key with
\* each flag; for a string that is no date and for this week's Monday, a key
\* with members of the enums and each key with a non-member
Requests ==
    { TaskCompletionRequest(ws, key, c) :
        ws \in WeekStartInputs, key \in KeyInputs, c \in BOOLEAN }
    \cup
    { TaskCompletionRequest(invalid_date, key, TRUE) :
        key \in {<<"joan", "cocina", "limpieza_principal">>} \cup BadKeyInputs }
    \cup
    { TaskCompletionRequest(isoformat(get_monday_of_week(today)), key, TRUE) :
        key \in BadKeyInputs }

\* TaskCompletionUpdate: week_start is any str, the three enum fields must be
\* members of their enums
TaskCompletionUpdate(req) ==
    /\ req.person \in PersonType
    /\ req.area \in AreaType
    /\ req.task_type \in TaskType

Response(op, status, body) == [op |-> op, status |-> status, body |-> body]

\* handlers whose except clauses turn every exception into a 500
except_clauses_mask(status_code) == 500

\* `except HTTPException: raise` of get_current_week and complete_task: the
\* status a raised HTTPException(status_code) leaves the handler with
except_clauses(status_code) == status_code

completed_count(coll) ==
    Cardinality({<<i, k>> \in (1..Len(coll)) \X (1..7) :
                    /\ k <= Len(coll[i].tasks)
                    /\ coll[i].tasks[k].limpieza_completada})

quiet == \A p \in Workers : pc[p] = "idle"

\* the Generates whose delete_many has taken effect and that have not yet
\* run the generator
in_flight == Cardinality({p \in Workers : pc[p] = "generate"})

----------------------------------------------------------------------------
(* State machine *)

\* no request has arrived
Idle ==
    /\ store = <<>>
    /\ pc = [p \in Workers |-> "idle"]
    /\ monday = [p \in Workers |-> 0]
    /\ schedules = [p \in Workers |-> <<>>]
    /\ task_update = [p \in Workers |-> None]
    /\ completed_at = [p \in Workers |-> None]
    /\ before = [p \in Workers |-> <<>>]
    /\ resp = Response("none", 0, <<>>)
    /\ runs = 0
    /\ requests = 0

Init ==
    /\ today \in FirstDay..LastDay
    /\ Idle

\* the clock passes midnight, up to the last day of the window
Tick(last) ==
    /\ today < last
    /\ today' = today + 1
    /\ UNCHANGED <<store, pc, monday, schedules, task_update, completed_at, before, resp, runs, requests>>

\* create_schedules: delete_many({}) takes effect
create_schedules_delete(p, fail) ==
    /\ pc[p] = "idle"
    /\ requests < MaxRequests
    /\ runs + in_flight < MaxRuns
    /\ requests' = requests + 1
    /\ IF fail
       THEN /\ resp' = Response("generate", 500, <<>>)
            /\ UNCHANGED <<store, pc, before>>
       ELSE /\ store' = delete_many(store)
            /\ pc' = [pc EXCEPT ![p] = "generate"]
            /\ before' = [before EXCEPT ![p] = store]
            /\ UNCHANGED resp
    /\ UNCHANGED <<today, monday, schedules, task_update, completed_at, runs>>

\* create_schedules resumes after delete_many: the generator reads the clock
\* and builds the schedules, and the handler calls insert_many
create_schedules_generate(p) ==
    /\ pc[p] = "generate"
    /\ schedules' = [schedules EXCEPT ![p] = generate_all_schedules(today, runs + 1)]
    /\ runs' = runs + 1
    /\ pc' = [pc EXCEPT ![p] = "insert_many"]
    /\ UNCHANGED <<today, store, monday, task_update, completed_at, before, resp, requests>>

\* create_schedules: insert_many takes effect, or raises on an empty list or
\* on a storage failure, and the handler answers
create_schedules_insert(p, fail) ==
    /\ pc[p] = "insert_many"
    /\ IF schedules[p] = <<>> \/ fail
       THEN /\ resp' = Response("generate", 500, <<>>)
            /\ UNCHANGED store
       ELSE /\ store' = store \o schedules[p]
            /\ resp' = Response("generate", 200,
                    [ created |-> Len(schedules[p]),
                      from    |-> <<schedules[p][1].week_start>>,
                      to      |-> <<schedules[p][Len(schedules[p])].week_start>> ])
    /\ pc' = [pc EXCEPT ![p] = "idle"]
    /\ schedules' = [schedules EXCEPT ![p] = <<>>]
    /\ before' = [before EXCEPT ![p] = <<>>]
    /\ UNCHANGED <<today, monday, task_update, completed_at, runs, requests>>

\* get_current_week up to its first await: it reads the clock and calls
\* find_one by this week's Monday
get_current_week_begin(p) ==
    /\ pc[p] = "idle"
    /\ requests < MaxRequests
    /\ requests' = requests + 1
    /\ monday' = [monday EXCEPT ![p] = get_monday_of_week(today)]
    /\ pc' = [pc EXCEPT ![p] = "find_one"]
    /\ UNCHANGED <<today, store, schedules, task_update, completed_at, before, resp, runs>>

\* get_current_week: the first find_one takes effect
get_current_week_find(p, fail) ==
    /\ pc[p] = "find_one"
    /\ LET i == find_one_week(store, isoformat(monday[p]))
       IN  IF fail
           THEN /\ resp' = Response("current_week", 500, <<>>)
                /\ pc' = [pc EXCEPT ![p] = "idle"]
                /\ monday' = [monday EXCEPT ![p] = 0]
           ELSE IF i # 0
           THEN /\ resp' = Response("current_week", 200, store[i])
                /\ pc' = [pc EXCEPT ![p] = "idle"]
                /\ monday' = [monday EXCEPT ![p] = 0]
           ELSE /\ pc' = [pc EXCEPT ![p] = "find_first"]
                /\ UNCHANGED <<resp, monday>>
    /\ UNCHANGED <<today, store, schedules, task_update, completed_at, before, runs, requests>>

\* get_current_week: the second find_one takes effect
get_current_week_first(p, fail) ==
    /\ pc[p] = "find_first"
    /\ IF fail
       THEN resp' = Response("current_week", 500, <<>>)
       ELSE IF find_one_sorted(store) = {}
       THEN resp' = Response("current_week", except_clauses(404), <<>>)
       ELSE \E i \in find_one_sorted(store) :
                resp' = Response("current_week", 200, store[i])
    /\ pc' = [pc EXCEPT ![p] = "idle"]
    /\ monday' = [monday EXCEPT ![p] = 0]
    /\ UNCHANGED <<today, store, schedules, task_update, completed_at, before, runs, requests>>

\* complete_task up to its await: the request is validated, line 263 reads
\* the clock (time_of_day is the time of the day `today` it reads), and the
\* handler calls update_one
complete_task_begin(p, req) ==
    /\ pc[p] = "idle"
    /\ requests < MaxRequests
    /\ requests' = requests + 1
    /\ IF ~TaskCompletionUpdate(req)
       THEN /\ resp' = Response("complete", 422, <<>>)
            /\ UNCHANGED <<pc, task_update, completed_at>>
       ELSE /\ pc' = [pc EXCEPT ![p] = "update_one"]
            /\ task_update' = [task_update EXCEPT ![p] = <<req>>]
            /\ \E time_of_day \in TimesOfDay :
                completed_at' = [completed_at EXCEPT
                    ![p] = completed_at_value(req.completed, <<today, time_of_day>>)]
            /\ UNCHANGED resp
    /\ UNCHANGED <<today, store, monday, schedules, before, runs>>

\* complete_task: update_one takes effect and the handler answers
complete_task_update_one(p, fail) ==
    /\ pc[p] = "update_one"
    /\ LET req == task_update[p][1]
           i   == matched_doc(store, req)
       IN  IF fail
           THEN /\ resp' = Response("complete", 500, <<>>)
                /\ UNCHANGED store
           ELSE IF i = 0
           THEN /\ resp' = Response("complete", except_clauses(404), <<>>)
                /\ UNCHANGED store
           ELSE /\ resp' = Response("complete", 200, [completed |-> req.completed])
                /\ store' = [store EXCEPT
                                ![i] = update_query(store[i], req, completed_at[p])]
    /\ completed_count(store') <= MaxCompleted
    /\ pc' = [pc EXCEPT ![p] = "idle"]
    /\ task_update' = [task_update EXCEPT ![p] = None]
    /\ completed_at' = [completed_at EXCEPT ![p] = None]
    /\ UNCHANGED <<today, monday, schedules, before, runs, requests>>

\* get_all_schedules
get_all_schedules(fail) ==
    /\ requests < MaxRequests
    /\ requests' = requests + 1
    /\ IF fail
       THEN resp' = Response("schedules", 500, <<>>)
       ELSE resp' = Response("schedules", 200, sort_by_week_start(store))
    /\ UNCHANGED <<today, store, pc, monday, schedules, task_update, completed_at, before, runs>>

\* delete_all_schedules
delete_all_schedules(fail) ==
    /\ requests < MaxRequests
    /\ requests' = requests + 1
    /\ IF fail
       THEN /\ resp' = Response("delete", 500, <<>>)
            /\ UNCHANGED store
       ELSE /\ resp' = Response("delete", 200, [deleted_count |-> Len(store)])
            /\ store' = delete_many(store)
    /\ UNCHANGED <<today, pc, monday, schedules, task_update, completed_at, before, runs>>

Next ==
    \/ Tick(LastDay)
    \/ \E p \in Workers, fail \in BOOLEAN : create_schedules_delete(p, fail)
    \/ \E p \in Workers : create_schedules_generate(p)
    \/ \E p \in Workers, fail \in BOOLEAN : create_schedules_insert(p, fail)
    \/ \E p \in Workers : get_current_week_begin(p)
    \/ \E p \in Workers, fail \in BOOLEAN : get_current_week_find(p, fail)
    \/ \E p \in Workers, fail \in BOOLEAN : get_current_week_first(p, fail)
    \/ \E p \in Workers, req \in Requests : complete_task_begin(p, req)
    \/ \E p \in Workers, fail \in BOOLEAN : complete_task_update_one(p, fail)
    \/ \E fail \in BOOLEAN : get_all_schedules(fail)
    \/ \E fail \in BOOLEAN : delete_all_schedules(fail)

\* concurrent requests: any interleaving of the stretches of the handlers
Spec == Init /\ [][Next]_vars

\* one request at a time: a request begins only when none is suspended
SeqNext ==
    \/ Tick(SeqLastDay)
    \/ quiet /\ \E p \in Workers, fail \in BOOLEAN : create_schedules_delete(p, fail)
    \/ \E p \in Workers : create_schedules_generate(p)
    \/ \E p \in Workers, fail \in BOOLEAN : create_schedules_insert(p, fail)
    \/ quiet /\ \E p \in Workers : get_current_week_begin(p)
    \/ \E p \in Workers, fail \in BOOLEAN : get_current_week_find(p, fail)
    \/ \E p \in Workers, fail \in BOOLEAN : get_current_week_first(p, fail)
    \/ quiet /\ \E p \in Workers, req \in Requests : complete_task_begin(p, req)
    \/ \E p \in Workers, fail \in BOOLEAN : complete_task_update_one(p, fail)
    \/ quiet /\ \E fail \in BOOLEAN : get_all_schedules(fail)
    \/ quiet /\ \E fail \in BOOLEAN : delete_all_schedules(fail)

SeqInit ==
    /\ today \in SeqFirstDay..SeqLastDay
    /\ Idle

SeqSpec == SeqInit /\ [][SeqNext]_vars

\* concurrent Generate, List-all and Delete-all requests over the earlier
\* clock, so that weeks generated on different days mix in the collection
ListNext ==
    \/ Tick(SeqLastDay)
    \/ \E p \in Workers, fail \in BOOLEAN : create_schedules_delete(p, fail)
    \/ \E p \in Workers : create_schedules_generate(p)
    \/ \E p \in Workers, fail \in BOOLEAN : create_schedules_insert(p, fail)
    \/ \E fail \in BOOLEAN : get_all_schedules(fail)
    \/ \E fail \in BOOLEAN : delete_all_schedules(fail)

ListSpec == SeqInit /\ [][ListNext]_vars

\* the generator alone, run once on each date of a window
GenInit ==
    /\ today \in GenFirstDay..GenLastDay
    /\ Idle

Generator ==
    /\ runs = 0
    /\ store' = generate_all_schedules(today, 1)
    /\ runs' = 1
    /\ UNCHANGED <<today, pc, monday, schedules, task_update, completed_at, before, resp, requests>>

GenSpec == GenInit /\ [][Generator]_vars

----------------------------------------------------------------------------
(* What the claims speak of *)

\* the number a two-character decimal string denotes
number2(s, i) == (s[i] - 48) * 10 + (s[i + 1] - 48)

\* s is "YYYY-MM-DD" for a date of the calendar
valid_date(s) ==
    /\ Len(s) = 10
    /\ s[5] = 45 /\ s[8] = 45
    /\ \A i \in {1, 2, 3, 4, 6, 7, 9, 10} : s[i] \in 48..57
    /\ LET y == number2(s, 1) * 100 + number2(s, 3)
           m == number2(s, 6)
           d == number2(s, 9)
       IN  y >= 1 /\ m \in 1..12 /\ d \in 1..days_in_month(y, m)

\* the date a valid date string denotes
date_of(s) ==
    ymd2ord(number2(s, 1) * 100 + number2(s, 3), number2(s, 6), number2(s, 9))

\* all Tasks of a collection
all_tasks(coll) ==
    {coll[i].tasks[k] : <<i, k>> \in
        {<<i, k>> \in (1..Len(coll)) \X (1..7) : k <= Len(coll[i].tasks)}}

\* a document without its tasks
without_tasks(doc) == [doc EXCEPT !.tasks = <<>>]

\* a task without its two completion fields
without_completion(task) ==
    [task EXCEPT !.limpieza_completada = FALSE, !.completed_at = None]

\* C1: complete-task answers 422 and leaves the store alone whenever an enum
\* field is not a member of its enum or week_start is not a calendar date
C1_Rejects422 ==
    [][\A p \in Workers, req \in Requests :
        (/\ complete_task_begin(p, req)
         /\ (~TaskCompletionUpdate(req) \/ ~valid_date(req.week_start)))
        => /\ resp'.status = 422
           /\ pc'[p] = "idle"
           /\ store' = store]_vars

\* C2: a Generate that ends in an error leaves the collection as it was when
\* the request began, and one that succeeds leaves the generated set
C2_AllOrNothing ==
    [][\A p \in Workers, fail \in BOOLEAN :
        /\ create_schedules_delete(p, TRUE) => store' = store
        /\ create_schedules_insert(p, fail)
            => IF resp'.status = 500
               THEN store' = before[p]
               ELSE store' = schedules[p]]_vars

\* C3: the collection never holds two WeekSchedules with one week_start
C3_OnePerWeekStart ==
    \A i, j \in 1..Len(store) :
        i # j => store[i].week_start # store[j].week_start

\* C4: a successful complete-task changes the completion flag and timestamp
\* of one Task that matches the request, and nothing else in the collection
C4_Frame ==
    [][\A p \in Workers :
        (complete_task_update_one(p, FALSE) /\ resp'.status = 200)
        => LET req == task_update[p][1] IN
           /\ Len(store') = Len(store)
           /\ \E i \in 1..Len(store) :
                /\ store[i].week_start = req.week_start
                /\ \A j \in 1..Len(store) : j # i => store'[j] = store[j]
                /\ without_tasks(store'[i]) = without_tasks(store[i])
                /\ Len(store'[i].tasks) = Len(store[i].tasks)
                /\ \E k \in 1..Len(store[i].tasks) :
                    /\ store[i].tasks[k].person = req.person
                    /\ store[i].tasks[k].area = req.area
                    /\ store[i].tasks[k].task_type = req.task_type
                    /\ \A m \in 1..Len(store[i].tasks) :
                        m # k => store'[i].tasks[m] = store[i].tasks[m]
                    /\ without_completion(store'[i].tasks[k])
                        = without_completion(store[i].tasks[k])
                    /\ store'[i].tasks[k].limpieza_completada = req.completed]_vars

C4_Witness ==
    /\ resp.op = "complete" /\ resp.status = 200 /\ resp.body.completed
    /\ \E t \in all_tasks(store) : t.limpieza_completada

\* C5: a stored Task has a completion timestamp exactly when its flag is true
C5_TimestampIffCompleted ==
    \A t \in all_tasks(store) :
        (t.completed_at # None) <=> t.limpieza_completada

\* a request has marked a task uncompleted, and every stored task has its
\* flag false and no timestamp
C5_Witness ==
    /\ resp.op = "complete" /\ resp.status = 200 /\ ~resp.body.completed
    /\ store # <<>>
    /\ \A t \in all_tasks(store) :
        ~t.limpieza_completada /\ t.completed_at = None

\* C6: complete-task with valid enum fields answers 404 and changes nothing
\* when no stored week with that week_start holds a task of that person,
\* area and type, and answers 200 when there is one
C6_NotFound ==
    [][\A p \in Workers :
        complete_task_update_one(p, FALSE)
        => LET req == task_update[p][1] IN
           /\ TaskCompletionUpdate(req)
           /\ IF \E t \in all_tasks(store) :
                    /\ t.week_start = req.week_start
                    /\ <<t.person, t.area, t.task_type>>
                        = <<req.person, req.area, req.task_type>>
              THEN resp'.status = 200
              ELSE resp'.status = 404 /\ store' = store]_vars

\* the week is stored, the task is not
C6_Witness ==
    /\ resp.op = "complete" /\ resp.status = 404
    /\ \E i \in 1..Len(store) :
        store[i].week_start = isoformat(get_monday_of_week(today))

\* the stored documents
documents(coll) == {coll[i] : i \in 1..Len(coll)}

\* C7: with no other request interleaved, current-week returns the stored
\* week of the Monday of the date the request reads from the clock when there
\* is one, otherwise the stored week with the earliest week_start, and 404
\* exactly when the collection is empty
C7_CurrentWeek ==
    [][\A p \in Workers :
        /\ get_current_week_begin(p)
            => monday'[p] = today - ((today + 6) % 7)
        /\ get_current_week_find(p, FALSE)
            => LET this_week == {d \in documents(store) :
                        /\ valid_date(d.week_start)
                        /\ date_of(d.week_start) = monday[p]}
               IN  IF this_week # {}
                   THEN resp'.status = 200 /\ resp'.body \in this_week
                   ELSE pc'[p] = "find_first" /\ resp' = resp
        /\ get_current_week_first(p, FALSE)
            => /\ \A d \in documents(store) : date_of(d.week_start) # monday[p]
               /\ resp'.status = 404 <=> store = <<>>
               /\ store # <<>>
                    => /\ resp'.status = 200
                       /\ resp'.body \in documents(store)
                       /\ \A d \in documents(store) :
                            date_of(resp'.body.week_start)
                                <= date_of(d.week_start)]_vars

\* the fallback answered with the earlier of two stored weeks
C7_Witness ==
    /\ resp.op = "current_week" /\ resp.status = 200
    /\ Len(store) = 2
    /\ resp.body = store[1]
    /\ date_of(resp.body.week_start) > today - ((today + 6) % 7)
    /\ date_of(store[1].week_start) < date_of(store[2].week_start)

\* C8: with no other request interleaved, a Generate that succeeds leaves
\* exactly the generator's output for the date the generator read from the
\* clock, none of the records stored before, every Task uncompleted, and
\* reports the number of weeks and the first and last week_start
C8_FullReplace ==
    [][\A p \in Workers :
        /\ create_schedules_generate(p)
            => schedules'[p] = generate_all_schedules(today, runs')
        /\ (create_schedules_insert(p, FALSE) /\ resp'.status = 200)
            => /\ store' = schedules[p]
               /\ \A old \in documents(before[p]), new \in documents(store') :
                    old.id # new.id
               /\ \A t \in all_tasks(store') :
                    ~t.limpieza_completada /\ t.completed_at = None
               /\ resp'.body.created = Len(store')
               /\ resp'.body.from = <<store'[1].week_start>>
               /\ resp'.body.to = <<store'[Len(store')].week_start>>]_vars

\* a second Generate has replaced the weeks of the first
C8_Witness ==
    /\ resp.op = "generate" /\ resp.status = 200 /\ resp.body.created = 2
    /\ runs = 2
    /\ \A d \in documents(store) : d.id[1] = 2

\* C9: on every date the generator's start date is a Monday, seven days after
\* the Monday of the current week, and no generated week is the current one
C9_StartsNextWeek ==
    LET start_date == get_next_monday(today)
        this_week  == today - ((today + 6) % 7)
    IN  /\ (start_date + 6) % 7 = 0
        /\ start_date > this_week
        /\ start_date = this_week + 7
        /\ \A d \in documents(store) : date_of(d.week_start) > this_week

\* the generator has run on a Monday
C9_Witness ==
    /\ (today + 6) % 7 = 0
    /\ runs = 1
    /\ store # <<>>

\* C10: the generator returns one week for each of start, start + 7, ... that
\* is on or before 2026-07-01, in that order, and nothing when start is later
C10_Horizon ==
    runs = 1 =>
        LET start_date == get_next_monday(today)
            last_day   == ymd2ord(2026, 7, 1)
            n          == Len(store)
        IN  /\ \A i \in 1..n :
                /\ valid_date(store[i].week_start)
                /\ date_of(store[i].week_start) = start_date + 7 * (i - 1)
            /\ \A i \in 1..(n - 1) :
                date_of(store[i + 1].week_start)
                    = date_of(store[i].week_start) + 7
            /\ n > 0 => /\ date_of(store[n].week_start) <= last_day
                        /\ date_of(store[n].week_start) + 7 > last_day
            /\ start_date > last_day <=> n = 0

\* the generator has returned several weeks
C10_Witness ==
    /\ runs = 1
    /\ Len(store) >= 3

\* the generator has returned nothing
C10_WitnessEmpty ==
    /\ runs = 1
    /\ store = <<>>
    /\ get_next_monday(today) > end_date

\* the main area recorded for a person in a WeekSchedule
area_field(w, person) ==
    CASE person = "joan"  -> w.joan_area
      [] person = "mery"  -> w.mery_area
      [] person = "paco"  -> w.paco_area
      [] person = "belen" -> w.belen_area

\* the bathroom flag recorded for a person in a WeekSchedule
bano_field(w, person) ==
    CASE person = "joan"  -> w.joan_bano
      [] person = "mery"  -> w.mery_bano
      [] person = "paco"  -> w.paco_bano
      [] person = "belen" -> w.belen_bano

\* C11: in the generated week of index i (from 0) Joan and Paco have bathroom
\* duty exactly when i is even, Mery and Belen exactly when i is odd; so the
\* two of a bathroom never both have it, and the holder switches every week
C11_BathroomParity ==
    runs = 1 =>
        /\ \A n \in 1..Len(store) :
            LET w == store[n]
                i == n - 1
            IN  /\ w.joan_bano <=> (i \in {2 * h : h \in 0..Len(store)})
                /\ w.paco_bano <=> (i \in {2 * h : h \in 0..Len(store)})
                /\ w.mery_bano <=> (i \in {2 * h + 1 : h \in 0..Len(store)})
                /\ w.belen_bano <=> (i \in {2 * h + 1 : h \in 0..Len(store)})
                /\ w.joan_bano # w.mery_bano
                /\ w.paco_bano # w.belen_bano
        /\ \A n \in 1..(Len(store) - 1) :
            \A person \in PersonType :
                bano_field(store[n], person) # bano_field(store[n + 1], person)

\* several weeks were generated, the second with Mery and Belen on duty
C11_Witness ==
    /\ runs = 1
    /\ Len(store) >= 3
    /\ store[2].mery_bano /\ store[2].belen_bano /\ store[3].joan_bano

\* C12: in every generated week Joan and Mery share a main area, Paco and
\* Belen share the other one: cocina for Joan and Mery on even week indexes,
\* salon_pasillo on odd ones
C12_MainAreas ==
    runs = 1 =>
        \A n \in 1..Len(store) :
            LET w    == store[n]
                even == (n - 1) \in {2 * h : h \in 0..Len(store)}
            IN  /\ w.joan_area = w.mery_area
                /\ w.paco_area = w.belen_area
                /\ w.joan_area \in {"cocina", "salon_pasillo"}
                /\ w.paco_area \in {"cocina", "salon_pasillo"}
                /\ w.joan_area # w.paco_area
                /\ even => w.joan_area = "cocina" /\ w.paco_area = "salon_pasillo"
                /\ ~even => w.joan_area = "salon_pasillo" /\ w.paco_area = "cocina"

\* several weeks were generated, the second with the areas swapped
C12_Witness ==
    /\ runs = 1
    /\ Len(store) >= 3
    /\ store[2].joan_area = "salon_pasillo" /\ store[2].belen_area = "cocina"

\* the positions of a week's tasks of one type
tasks_of_type(w, task_type) ==
    {k \in 1..Len(w.tasks) : w.tasks[k].task_type = task_type}

\* C13: every generated week holds six Tasks of that week: one main task per
\* person at the person's recorded area, and one bathroom task for each
\* person whose flag is true, at that person's bathroom, none for the
\* others; no two Tasks of a week have the same person, area and type
C13_SixTasks ==
    runs = 1 =>
        \A n \in 1..Len(store) :
            LET w     == store[n]
                mains == tasks_of_type(w, "limpieza_principal")
                banos == tasks_of_type(w, "limpieza_bano")
            IN  /\ Len(w.tasks) = 6
                /\ \A k \in 1..Len(w.tasks) : w.tasks[k].week_start = w.week_start
                /\ Cardinality(mains) = 4
                /\ Cardinality(banos) = 2
                /\ \A person \in PersonType :
                    /\ Cardinality({k \in mains : w.tasks[k].person = person}) = 1
                    /\ \A k \in mains :
                        w.tasks[k].person = person
                            => w.tasks[k].area = area_field(w, person)
                    /\ Cardinality({k \in banos : w.tasks[k].person = person})
                        = IF bano_field(w, person) THEN 1 ELSE 0
                    /\ \A k \in banos :
                        w.tasks[k].person = person
                            => w.tasks[k].area =
                                    IF person \in {"joan", "mery"}
                                    THEN "bano_joan_mery"
                                    ELSE "bano_paco_belen"
                /\ \A k, m \in 1..Len(w.tasks) :
                    k # m =>
                        <<w.tasks[k].person, w.tasks[k].area, w.tasks[k].task_type>>
                        # <<w.tasks[m].person, w.tasks[m].area, w.tasks[m].task_type>>

\* two weeks were generated, the second with a bathroom task for Belen
C13_Witness ==
    /\ runs = 1
    /\ Len(store) >= 2
    /\ \E k \in 1..Len(store[2].tasks) :
        /\ store[2].tasks[k].person = "belen"
        /\ store[2].tasks[k].task_type = "limpieza_bano"

\* C14: Delete-all empties the collection and reports how many WeekSchedules
\* it held; on the empty collection current-week answers 404 and List-all
\* answers the empty list
C14_DeleteAll ==
    [][/\ delete_all_schedules(FALSE)
            => /\ store' = <<>>
               /\ resp'.status = 200
               /\ resp'.body.deleted_count = Len(store)
       /\ store = <<>>
            => /\ \A p \in Workers :
                    /\ get_current_week_find(p, FALSE) => pc'[p] = "find_first"
                    /\ get_current_week_first(p, FALSE) => resp'.status = 404
               /\ get_all_schedules(FALSE)
                    => resp'.status = 200 /\ resp'.body = <<>>]_vars

\* Delete-all has removed stored weeks
C14_Witness ==
    /\ resp.op = "delete" /\ resp.status = 200
    /\ resp.body.deleted_count > 0
    /\ store = <<>>

\* the number of times a document occurs in a list
occurrences(coll, d) == Cardinality({i \in 1..Len(coll) : coll[i] = d})

\* C15: List-all answers with every stored WeekSchedule exactly once, in
\* non-decreasing order of week_start, and with the empty list when the
\* collection is empty
C15_ListAll ==
    [][get_all_schedules(FALSE)
        => /\ resp'.status = 200
           /\ Len(resp'.body) = Len(store)
           /\ \A d \in documents(store) \cup documents(resp'.body) :
                occurrences(resp'.body, d) = occurrences(store, d)
           /\ \A i \in 1..(Len(resp'.body) - 1) :
                date_of(resp'.body[i].week_start)
                    <= date_of(resp'.body[i + 1].week_start)]_vars

\* a list was returned in another order than the collection's natural one
C15_Witness ==
    /\ resp.op = "schedules" /\ resp.status = 200
    /\ Len(store) >= 3
    /\ Len(resp.body) = Len(store)
    /\ resp.body # store
    /\ \E i \in 1..(Len(store) - 1) :
        date_of(store[i].week_start) > date_of(store[i + 1].week_start)

\* some Generate is between its delete_many and its insert_many
generating == \E g \in Workers : pc[g] \in {"generate", "insert_many"}

\* C16: the delete of a Generate empties the collection before the request
\* has answered, and requests served on the empty collection while the
\* Generate is suspended see no schedules: current-week answers 404,
\* List-all the empty list, complete-task 404
C16_TransientEmpty ==
    [][/\ \A g \in Workers :
            create_schedules_delete(g, FALSE)
                => store' = <<>> /\ pc'[g] = "generate" /\ resp' = resp
       /\ (generating /\ store = <<>>)
            => /\ \A p \in Workers :
                    /\ get_current_week_find(p, FALSE) => pc'[p] = "find_first"
                    /\ get_current_week_first(p, FALSE) => resp'.status = 404
               /\ get_all_schedules(FALSE)
                    => resp'.status = 200 /\ resp'.body = <<>>
               /\ \A p \in Workers :
                    complete_task_update_one(p, FALSE)
                        => resp'.status = 404 /\ store' = store]_vars

\* a Generate that replaced stored weeks is suspended, the collection is
\* empty, and a complete-task request has just been answered 404
C16_Witness ==
    /\ \E g \in Workers :
        /\ pc[g] = "insert_many"
        /\ before[g] # <<>>
        /\ schedules[g] # <<>>
    /\ store = <<>>
    /\ resp.op = "complete" /\ resp.status = 404

\* C17: when the generator returns nothing and the storage calls succeed,
\* Generate leaves the collection empty and answers 200 with created = 0
\* and from = to = null
C17_EmptyGenerate ==
    [][\A p \in Workers :
        (/\ create_schedules_insert(p, FALSE)
         /\ schedules[p] = <<>>)
        => /\ resp'.status = 200
           /\ resp'.body.created = 0
           /\ resp'.body.from = None
           /\ resp'.body.to = None
           /\ store' = <<>>]_vars

====
